---- MODULE Spec2Model ----
(***************************************************************************)
(* Command gateway: rule matching, tiered approval votes and credit-debited *)
(* execution.  Every HTTP request is a process; every awaited database      *)
(* call of a handler is one step, so the handlers interleave exactly where  *)
(* the Node event loop lets them interleave.                                *)
(***************************************************************************)
EXTENDS Integers, Sequences, FiniteSets, Bags, TLC

\* ---------------------------------------------------------------- bounds
\* Total number of requests the clients issue in one behaviour.
MaxRequests == 3
\* Every user's balance at the start.
InitCredits == 2

\* ----------------------------------------------------------------- users
\* Request slots: at most two requests are in flight at once.
Procs == {1, 2}
Admins == {"a1", "a2"}
Members == {"m1"}
Users == Admins \cup Members
Tiers == {"junior", "senior", "lead"}
\* The member starts as a junior or as a lead; the seeded admins are leads.
MemberTiers == {"junior", "lead"}
\* The roles of the seeded users.
seedRole(u) == IF u \in Admins THEN "admin" ELSE "member"

\* ----------------------------------------------------------------- rules
Actions == {"AUTO_ACCEPT", "AUTO_REJECT", "REQUIRE_APPROVAL"}
NoWindow == [present |-> FALSE, days |-> {}, startHour |-> 0, endHour |-> 0]
WorkWeek == [present |-> TRUE, days |-> {1, 2, 3, 4, 5}, startHour |-> 9, endHour |-> 18]

MkRule(pat, act, prio, thr, win) ==
    [pattern |-> pat, action |-> act, priority |-> prio,
     approvalThreshold |-> thr, timeRestrictions |-> win]

defaultRules ==
    << MkRule(":\\(\\)\\{ :\\|:& \\};:", "AUTO_REJECT", 100, 1, NoWindow),
       MkRule("rm\\s+-rf\\s+/", "AUTO_REJECT", 99, 1, NoWindow),
       MkRule("mkfs\\.", "AUTO_REJECT", 98, 1, NoWindow),
       MkRule("git\\s+(status|log|diff)", "AUTO_ACCEPT", 50, 1, NoWindow),
       MkRule("^(ls|cat|pwd|echo)", "AUTO_ACCEPT", 49, 1, NoWindow),
       MkRule("sudo\\s+", "REQUIRE_APPROVAL", 80, 2, NoWindow),
       MkRule("docker\\s+(run|exec)", "REQUIRE_APPROVAL", 75, 1, WorkWeek) >>

\* The probe corpus of detectRuleConflict.
testStrings ==
    {"ls -la", "cat file.txt", "rm -rf /", "git status", "git log",
     "sudo apt-get install", "docker run nginx", ":(){ :|:& };:",
     "mkfs.ext4 /dev/sda", "echo hello", "pwd"}

\* Command texts the clients submit, and patterns the admins try to add.
SubmitTexts == {"ls -la", "rm -rf /", "sudo reboot", "docker run nginx", "whoami"}
NewPatterns == {"reboot", "a(b", "sudo"}

\* new RegExp(pattern): the patterns that compile.
validateRegexPattern(pat) == pat # "a(b"

\* regex.test(text) for the patterns above (unanchored search unless ^).
RegexTest(pat, text) ==
    CASE pat = ":\\(\\)\\{ :\\|:& \\};:" -> text = ":(){ :|:& };:"
      [] pat = "rm\\s+-rf\\s+/" -> text = "rm -rf /"
      [] pat = "mkfs\\." -> text = "mkfs.ext4 /dev/sda"
      [] pat = "git\\s+(status|log|diff)" -> text \in {"git status", "git log"}
      [] pat = "^(ls|cat|pwd|echo)" -> text \in {"ls -la", "cat file.txt", "echo hello", "pwd"}
      [] pat = "sudo\\s+" -> text \in {"sudo apt-get install", "sudo reboot"}
      [] pat = "docker\\s+(run|exec)" -> text = "docker run nginx"
      [] pat = "reboot" -> text = "sudo reboot"
      [] pat = "sudo" -> text \in {"sudo apt-get install", "sudo reboot"}
      [] pat = "whoami" -> text = "whoami"
      [] OTHER -> FALSE

\* Mutant of detectRuleConflict: the excluded rule is compared as well.
detectRuleConflictAll(rs, newPattern, excludeRuleId) ==
    {i \in DOMAIN rs :
        /\ validateRegexPattern(rs[i].pattern)
        /\ \E t \in testStrings : RegexTest(newPattern, t) /\ RegexTest(rs[i].pattern, t)}

\* The rules detectRuleConflict reports for newPattern against store rs:
\* findMany leaves out excludeRuleId (0 stands for undefined), a rule whose
\* pattern does not compile is skipped by the catch, and a rule is pushed at
\* the first probe string that both patterns match.
detectRuleConflict(rs, newPattern, excludeRuleId) ==
    {i \in DOMAIN rs \ {excludeRuleId} :
        /\ validateRegexPattern(rs[i].pattern)
        /\ \E t \in testStrings : RegexTest(newPattern, t) /\ RegexTest(rs[i].pattern, t)}

\* Mutant of isWithinTimeRestrictions: the window includes its end hour.
isWithinTimeRestrictionsClosed(tr, day, hour) ==
    IF ~tr.present THEN FALSE
    ELSE day \in tr.days /\ hour >= tr.startHour /\ hour <= tr.endHour

isWithinTimeRestrictions(tr, day, hour) ==
    IF ~tr.present THEN FALSE
    ELSE day \in tr.days /\ hour >= tr.startHour /\ hour < tr.endHour

\* prisma.rule.findMany({orderBy: {priority: 'desc'}}): the orders the database
\* may return the rows of rest in.  The query names no second sort key, so
\* rows of equal priority come in whatever order the database produces.
RECURSIVE findManyByPriority(_, _)
findManyByPriority(rs, rest) ==
    IF rest = {} THEN {<< >>}
    ELSE UNION {{<<i>> \o o : o \in findManyByPriority(rs, rest \ {i})} :
                   i \in {k \in rest : \A j \in rest : rs[j].priority <= rs[k].priority}}

\* Mutant of FirstMatch: a pattern that does not compile ends the scan.
RECURSIVE FirstMatchFatal(_, _, _)
FirstMatchFatal(rs, order, text) ==
    IF order = << >> THEN 0
    ELSE LET i == Head(order)
         IN IF ~validateRegexPattern(rs[i].pattern) THEN 0
            ELSE IF RegexTest(rs[i].pattern, text) THEN i
            ELSE FirstMatchFatal(rs, Tail(order), text)

\* for (const rule of rules): the first rule whose pattern compiles (a throw
\* of new RegExp is caught and the rule skipped) and matches; 0 stands for null.
RECURSIVE FirstMatch(_, _, _)
FirstMatch(rs, order, text) ==
    IF order = << >> THEN 0
    ELSE LET i == Head(order)
         IN IF validateRegexPattern(rs[i].pattern) /\ RegexTest(rs[i].pattern, text)
            THEN i
            ELSE FirstMatch(rs, Tail(order), text)

\* matchCommand: the rules it can return, one per order findMany can produce.
matchCommand(rs, text) ==
    {FirstMatch(rs, o, text) : o \in findManyByPriority(rs, DOMAIN rs)}

getEffectiveAction(rule, day, hour) ==
    IF rule.action = "REQUIRE_APPROVAL" /\ isWithinTimeRestrictions(rule.timeRestrictions, day, hour)
    THEN "AUTO_ACCEPT"
    ELSE rule.action

Max2(a, b) == IF a >= b THEN a ELSE b

\* Mutant of getRequiredApprovals: the fractions are rounded up, not down.
getRequiredApprovalsRoundedUp(baseThreshold, userTier) ==
    CASE userTier = "lead" -> Max2(1, (baseThreshold + 1) \div 2)
      [] userTier = "senior" -> Max2(1, (3 * baseThreshold + 3) \div 4)
      [] OTHER -> baseThreshold

getRequiredApprovals(baseThreshold, userTier) ==
    CASE userTier = "lead" -> Max2(1, baseThreshold \div 2)
      [] userTier = "senior" -> Max2(1, (3 * baseThreshold) \div 4)
      [] OTHER -> baseThreshold

\* ----------------------------------------------------------------- state
VARIABLES
    credits,     \* User.credits
    tier,        \* User.tier
    rules,       \* the Rule table, in creation order; a rule's id is its index
    commands,    \* the Command table, in creation order; a command's id is its index
    approvals,   \* the Approval table, a bag of [commandId, approverId, decision]
    proc,        \* each request in flight: position in its handler and its locals
    hist,        \* history, per command: verdict at submission and executions
    nreq,        \* requests issued so far
    call,        \* the last call of a rule-engine function: arguments and result
    auditUp,     \* whether prisma.auditLog.create succeeds
    role,        \* User.role
    now,         \* Date.now(), in half hours
    mail         \* the notifications handed to sendEmail so far

vars == <<credits, tier, rules, commands, approvals, proc, hist, nreq, call, auditUp,
          role, now, mail>>

\* req.user.role, on the row authenticate loaded.
Role(u) == role[u]

\* Mutant of requireAdmin: every authenticated user passes.
requireAdminAnyUser(u) == TRUE

\* requireAdmin: req.user.role === 'admin', else 403.
requireAdmin(u) == Role(u) = "admin"

Vias == {"vote", "resubmit", "submit_dup", "submit_new"}

Idle ==
    [pc |-> "idle", kind |-> "none", user |-> "none", cmd |-> 0, text |-> "",
     decision |-> "", rule |-> 0, cnt |-> 0, req |-> 0, via |-> "none",
     seen |-> "", bal |-> 0, result |-> ""]

NoHist == [verdict |-> "none", execs |-> [v \in Vias |-> 0], approvedAtExec |-> 0,
           requiredAtExec |-> 0]

\* No rule-engine function has been called on its own.
NoCall ==
    [fn |-> "none", text |-> "", action |-> "", window |-> NoWindow, day |-> 0,
     hour |-> 0, base |-> 0, userTier |-> "", out |-> 0, outAction |-> "", prev |-> -1,
     exclude |-> 0, ids |-> {}]

Init ==
    /\ credits = [u \in Users |-> InitCredits]
    /\ tier \in {f \in [Users -> Tiers] :
                    /\ \A a \in Admins : f[a] = "lead"
                    /\ \A m \in Members : f[m] \in MemberTiers}
    /\ rules = defaultRules
    /\ commands = << >>
    /\ approvals = EmptyBag
    /\ proc = [p \in Procs |-> Idle]
    /\ hist = << >>
    /\ nreq = 0
    /\ call = NoCall
    /\ auditUp = TRUE
    /\ role = [u \in Users |-> seedRole(u)]
    /\ now = 0
    /\ mail = {}

\* ------------------------------------------------------------- helpers
\* Mutant of logAuditThrows: a failed audit write is thrown to the caller.
logAuditRethrows(ok) == ~ok

\* logAudit: whether the call throws, given whether auditLog.create succeeded.
\* The catch logs the error and returns.
logAuditThrows(ok) == FALSE

\* prisma.approval.count({commandId, decision: 'approved'})
ApprovedCount(c) ==
    LET S == {r \in BagToSet(approvals) : r.commandId = c /\ r.decision = "approved"}
    IN BagCardinality([r \in S |-> approvals[r]])

\* The admins with an 'approved' vote on c.
Approvers(c) ==
    {r.approverId : r \in {x \in BagToSet(approvals) :
                               x.commandId = c /\ x.decision = "approved"}}

\* Mutant of HasVoted: the prior read finds nothing.
HasVotedNever(c, a) == FALSE

\* prisma.approval.findUnique({commandId_approverId})
HasVoted(c, a) ==
    \E r \in BagToSet(approvals) : r.commandId = c /\ r.approverId = a

Free(p) == proc[p].pc \in {"idle", "done"}

\* A new request takes the lowest free slot (the slots are interchangeable).
CanStart(p) == Free(p) /\ \A q \in Procs : q < p => ~Free(q)

\* The handler of p returns (res.json / res.status(..).json): the slot keeps
\* what the request was and what it answered (status and tally).
Done(p, result) ==
    [Idle EXCEPT !.pc = "done", !.kind = proc[p].kind, !.user = proc[p].user,
                 !.cmd = proc[p].cmd, !.cnt = proc[p].cnt, !.req = proc[p].req,
                 !.result = result]

Goto(p, pc) == [proc[p] EXCEPT !.pc = pc]

\* The user whose credits executeCommand debits: commandWithDetails.user for a
\* vote, req.user for the routes (the owner in each case).
Payer(p) == IF proc[p].kind = "vote" THEN commands[proc[p].cmd].userId ELSE proc[p].user

\* ------------------------------------------------- executeCommand
\* Mutant of InsufficientCredits: a balance of zero passes.
InsufficientCreditsBelowZero(bal) == bal < 0

\* !currentUser || currentUser.credits <= 0
InsufficientCredits(bal) == bal <= 0

\* tx.user.findUnique and the credits check (the transaction runs at the
\* database's default isolation, read committed: the balance it reads is the
\* committed one, and nothing stops another transaction from reading it too).
\* On failure the caller decides what the request answers.
\* Mutant of ExecutionFailed: a vote whose execution failed answers executed.
ExecutionFailedVoteExecuted(p) ==
    CASE proc[p].via = "vote" -> Done(p, "executed")
      [] proc[p].via = "resubmit" -> Done(p, proc[p].seen)
      [] proc[p].via = "submit_dup" -> [Goto(p, "s_create") EXCEPT !.cmd = 0]
      [] OTHER -> Done(p, "pending")

\* What each caller of executeCommand does with success: false.  addApproval
\* returns the failure; resubmit reports the status it loaded; the
\* duplicate-text branch of submit has no else and goes on to command.create;
\* the AUTO_ACCEPT branch answers 500 with status pending.
ExecutionFailed(p) ==
    CASE proc[p].via = "vote" -> Done(p, "execution_failed")
      [] proc[p].via = "resubmit" -> Done(p, proc[p].seen)
      [] proc[p].via = "submit_dup" -> [Goto(p, "s_create") EXCEPT !.cmd = 0]
      [] OTHER -> Done(p, "pending")

TxRead(p) ==
    /\ proc[p].pc = "tx_read"
    /\ IF InsufficientCredits(credits[Payer(p)])
       THEN proc' = [proc EXCEPT ![p] =
                IF logAuditThrows(auditUp) THEN Done(p, "error") ELSE ExecutionFailed(p)]
       ELSE proc' = [proc EXCEPT ![p] =
                [proc[p] EXCEPT !.pc = "tx_write", !.bal = credits[Payer(p)]]]
    /\ UNCHANGED <<credits, tier, rules, commands, approvals, hist, nreq, call, auditUp, role, now, mail>>

\* tx.user.update(decrement 1), tx.command.update(executed) and the commit.
TxWrite(p) ==
    LET c == proc[p].cmd
        rid == commands[c].matchedRuleId
        thr == IF rid = 0 THEN 0 ELSE rules[rid].approvalThreshold
    IN
    /\ proc[p].pc = "tx_write"
    /\ credits' = [credits EXCEPT ![Payer(p)] = @ - 1]
    /\ commands' = [commands EXCEPT ![c].status = "executed", ![c].executedAt = TRUE]
    /\ hist' = [hist EXCEPT ![c].execs[proc[p].via] = @ + 1,
                            ![c].approvedAtExec = Cardinality(Approvers(c)),
                            ![c].requiredAtExec =
                                getRequiredApprovals(thr, tier[commands[c].userId])]
    /\ proc' = [proc EXCEPT ![p] =
          Done(p, IF logAuditThrows(auditUp) THEN "error" ELSE "executed")]
    /\ UNCHANGED <<tier, rules, approvals, nreq, call, auditUp, role, now, mail>>

\* ------------------------------------------------- POST /api/commands
\* Mutant of NoCredits: only a negative balance is refused.
NoCreditsBelowZero(u) == credits[u] < 0

\* user.credits <= 0, on the row authenticate loaded.
NoCredits(u) == credits[u] <= 0

\* authenticate, then the credits check on the user it loaded.
StartSubmitOf(p, texts) ==
    \E u \in Members, t \in texts :
        /\ CanStart(p)
        /\ nreq < MaxRequests
        /\ nreq' = nreq + 1
        /\ LET r == [Idle EXCEPT !.kind = "submit", !.user = u, !.text = t]
           IN proc' = [proc EXCEPT ![p] =
                  IF NoCredits(u)
                  THEN [Idle EXCEPT !.pc = "done", !.kind = "submit", !.user = u,
                                    !.result = "insufficient_credits"]
                  ELSE [r EXCEPT !.pc = "s_find"]]
        /\ UNCHANGED <<credits, tier, rules, commands, approvals, hist, call, auditUp, role, now, mail>>

StartSubmit(p) == StartSubmitOf(p, SubmitTexts)

\* findFirst: the user's most recent command with this text awaiting approval.
\* Mutant of ExistingCommand: the search looks at pending commands.
ExistingCommandPending(u, t) ==
    LET S == {c \in DOMAIN commands :
                 /\ commands[c].userId = u
                 /\ commands[c].commandText = t
                 /\ commands[c].status = "pending"}
    IN IF S = {} THEN 0 ELSE CHOOSE c \in S : \A d \in S : d <= c

ExistingCommand(u, t) ==
    LET S == {c \in DOMAIN commands :
                 /\ commands[c].userId = u
                 /\ commands[c].commandText = t
                 /\ commands[c].status = "awaiting_approval"}
    IN IF S = {} THEN 0 ELSE CHOOSE c \in S : \A d \in S : d <= c

SubmitFind(p) ==
    LET u == proc[p].user
        c == ExistingCommand(u, proc[p].text)
    IN
    /\ proc[p].pc = "s_find"
    /\ IF c # 0 /\ commands[c].matchedRuleId # 0
       THEN LET cnt == ApprovedCount(c)
                req == getRequiredApprovals(
                           rules[commands[c].matchedRuleId].approvalThreshold, tier[u])
                r == [proc[p] EXCEPT !.cmd = c, !.cnt = cnt, !.req = req]
            IN proc' = [proc EXCEPT ![p] =
                   IF cnt >= req
                   THEN [r EXCEPT !.pc = "tx_read", !.via = "submit_dup"]
                   ELSE [Done(p, "awaiting_approval") EXCEPT !.cmd = c, !.cnt = cnt,
                                                             !.req = req]]
       ELSE proc' = [proc EXCEPT ![p] = Goto(p, "s_create")]
    /\ UNCHANGED <<credits, tier, rules, commands, approvals, hist, nreq, call, auditUp, role, now, mail>>

\* prisma.command.create({status: 'pending'})
SubmitCreate(p) ==
    /\ proc[p].pc = "s_create"
    /\ commands' = Append(commands,
          [userId |-> proc[p].user, commandText |-> proc[p].text, status |-> "pending",
           matchedRuleId |-> 0, executedAt |-> FALSE, createdAt |-> now])
    /\ hist' = Append(hist, NoHist)
    /\ proc' = [proc EXCEPT ![p] =
          [proc[p] EXCEPT !.pc = "s_match", !.cmd = Len(commands) + 1,
                          !.cnt = 0, !.req = 0, !.via = "none"]]
    /\ UNCHANGED <<credits, tier, rules, approvals, nreq, call, auditUp, role, now, mail>>

\* Mutant of OnNoMatch: an unmatched command is executed (fail-open).
OnNoMatchExecute(p) == [proc[p] EXCEPT !.pc = "tx_read", !.via = "submit_new"]

\* !matchedRule: the handler goes on to rejectCommand.
OnNoMatch(p) == Goto(p, "s_reject")

\* matchCommand(command_text)
SubmitMatch(p) ==
    /\ proc[p].pc = "s_match"
    /\ \E r \in matchCommand(rules, proc[p].text) :
          /\ proc' = [proc EXCEPT ![p] =
                IF r = 0 THEN OnNoMatch(p)
                ELSE [proc[p] EXCEPT !.pc = "s_setrule", !.rule = r]]
          /\ hist' = IF r = 0 THEN [hist EXCEPT ![proc[p].cmd].verdict = "nomatch"] ELSE hist
    /\ UNCHANGED <<credits, tier, rules, commands, approvals, nreq, call, auditUp, role, now, mail>>

ClockDays == {0, 1}
ClockHours == {8, 9, 17, 18}

\* Mutant of Dispatch: an auto-accepted command is parked for approval.
DispatchAcceptAwaits(p, act, rule) ==
    IF act = "AUTO_REJECT" THEN Goto(p, "s_reject")
    ELSE [proc[p] EXCEPT !.pc = "s_await",
             !.req = getRequiredApprovals(rule.approvalThreshold, tier[proc[p].user])]

\* Mutant of Dispatch: an auto-rejected command is sent to execution.
DispatchRejectExecutes(p, act, rule) ==
    IF act \in {"AUTO_ACCEPT", "AUTO_REJECT"}
    THEN [proc[p] EXCEPT !.pc = "tx_read", !.via = "submit_new"]
    ELSE [proc[p] EXCEPT !.pc = "s_await",
             !.req = getRequiredApprovals(rule.approvalThreshold, tier[proc[p].user])]

\* switch (effectiveAction): where the handler goes for each action.
Dispatch(p, act, rule) ==
    CASE act = "AUTO_ACCEPT" -> [proc[p] EXCEPT !.pc = "tx_read", !.via = "submit_new"]
      [] act = "AUTO_REJECT" -> Goto(p, "s_reject")
      [] OTHER -> [proc[p] EXCEPT !.pc = "s_await",
                      !.req = getRequiredApprovals(rule.approvalThreshold,
                                                   tier[proc[p].user])]

\* command.update({matchedRuleId}), then getEffectiveAction at the current
\* day and hour and the switch on it.
SubmitSetRule(p) ==
    LET c == proc[p].cmd
        rule == rules[proc[p].rule]
    IN
    /\ proc[p].pc = "s_setrule"
    /\ commands' = [commands EXCEPT ![c].matchedRuleId = proc[p].rule]
    /\ \E day \in ClockDays, hour \in ClockHours :
          LET act == getEffectiveAction(rule, day, hour)
          IN /\ hist' = [hist EXCEPT ![c].verdict = act]
             /\ proc' = [proc EXCEPT ![p] = Dispatch(p, act, rule)]
    /\ UNCHANGED <<credits, tier, rules, approvals, nreq, call, auditUp, role, now, mail>>

\* rejectCommand
SubmitReject(p) ==
    /\ proc[p].pc = "s_reject"
    /\ commands' = [commands EXCEPT ![proc[p].cmd].status = "rejected"]
    /\ proc' = [proc EXCEPT ![p] =
          Done(p, IF logAuditThrows(auditUp) THEN "error" ELSE "rejected")]
    /\ UNCHANGED <<credits, tier, rules, approvals, hist, nreq, call, auditUp, role, now, mail>>

\* setAwaitingApproval
SubmitAwait(p) ==
    /\ proc[p].pc = "s_await"
    /\ commands' = [commands EXCEPT ![proc[p].cmd].status = "awaiting_approval"]
    /\ proc' = [proc EXCEPT ![p] =
          Done(p, IF logAuditThrows(auditUp) THEN "error" ELSE "awaiting_approval")]
    /\ UNCHANGED <<credits, tier, rules, approvals, hist, nreq, call, auditUp, role, now, mail>>

\* ------------------------------------- POST /api/commands/:id/approve
Decisions == {"approved", "rejected"}

\* authenticate and requireAdmin (the role is the one on the row authenticate
\* loaded for this request), then the route's findUnique and status check.
StartVote(p) ==
    \E u \in Users, c \in DOMAIN commands, d \in Decisions :
        /\ CanStart(p)
        /\ nreq < MaxRequests
        /\ nreq' = nreq + 1
        /\ LET r == [Idle EXCEPT !.kind = "vote", !.user = u, !.cmd = c]
           IN proc' = [proc EXCEPT ![p] =
                  CASE ~requireAdmin(u) -> [r EXCEPT !.pc = "done", !.result = "forbidden"]
                    [] commands[c].status # "awaiting_approval" ->
                          [r EXCEPT !.pc = "done", !.result = "not_awaiting"]
                    [] OTHER -> [r EXCEPT !.pc = "v_find", !.decision = d]]
        /\ UNCHANGED <<credits, tier, rules, commands, approvals, hist, call, auditUp, role, now, mail>>

\* addApproval: has the approver already voted?
VoteFind(p) ==
    /\ proc[p].pc = "v_find"
    /\ proc' = [proc EXCEPT ![p] =
          IF HasVoted(proc[p].cmd, proc[p].user)
          THEN Done(p, "already_voted")
          ELSE Goto(p, "v_create")]
    /\ UNCHANGED <<credits, tier, rules, commands, approvals, hist, nreq, call, auditUp, role, now, mail>>

\* Mutant of UniqueViolation: the table has no unique index.
NoUniqueIndex(c, a) == FALSE

\* The unique index on (commandId, approverId) that findUnique's
\* commandId_approverId key names: an insert of a second row for the pair fails.
UniqueViolation(c, a) ==
    \E r \in BagToSet(approvals) : r.commandId = c /\ r.approverId = a

\* prisma.approval.create, then logAudit; a failed insert throws into the
\* route's catch (500).
VoteCreate(p) ==
    LET c == proc[p].cmd
        a == proc[p].user
    IN
    /\ proc[p].pc = "v_create"
    /\ IF UniqueViolation(c, a)
       THEN /\ proc' = [proc EXCEPT ![p] = Done(p, "error")]
            /\ UNCHANGED approvals
       ELSE /\ approvals' = approvals (+)
                  SetToBag({[commandId |-> c, approverId |-> a, decision |-> proc[p].decision]})
            /\ proc' = [proc EXCEPT ![p] =
                  IF logAuditThrows(auditUp) THEN Done(p, "error")
                  ELSE Goto(p, IF proc[p].decision = "rejected" THEN "v_reject"
                                                                ELSE "v_count")]
    /\ UNCHANGED <<credits, tier, rules, commands, hist, nreq, call, auditUp, role, now, mail>>

\* Mutant of VoteReject: a rejection takes effect only without approvals.
VoteRejectUnlessApproved(p) ==
    /\ proc[p].pc = "v_reject"
    /\ commands' = IF ApprovedCount(proc[p].cmd) = 0
                   THEN [commands EXCEPT ![proc[p].cmd].status = "rejected"]
                   ELSE commands
    /\ proc' = [proc EXCEPT ![p] = Done(p, "rejected")]
    /\ UNCHANGED <<credits, tier, rules, approvals, hist, nreq, call, auditUp, role, now, mail>>

\* decision === 'rejected': command.update({status: 'rejected'})
VoteReject(p) ==
    /\ proc[p].pc = "v_reject"
    /\ commands' = [commands EXCEPT ![proc[p].cmd].status = "rejected"]
    /\ proc' = [proc EXCEPT ![p] = Done(p, "rejected")]
    /\ UNCHANGED <<credits, tier, rules, approvals, hist, nreq, call, auditUp, role, now, mail>>

\* prisma.approval.count
VoteCount(p) ==
    /\ proc[p].pc = "v_count"
    /\ proc' = [proc EXCEPT ![p] =
          [proc[p] EXCEPT !.pc = "v_read", !.cnt = ApprovedCount(proc[p].cmd)]]
    /\ UNCHANGED <<credits, tier, rules, commands, approvals, hist, nreq, call, auditUp, role, now, mail>>

\* matchedRule?.approvalThreshold || 1
BaseThreshold(rid) ==
    IF rid = 0 \/ rules[rid].approvalThreshold = 0 THEN 1 ELSE rules[rid].approvalThreshold

\* Mutant of EnoughApprovals: a strict comparison.
EnoughApprovalsStrict(cnt, req) == cnt > req

\* approvalCount >= requiredApprovals
EnoughApprovals(cnt, req) == cnt >= req

\* Mutant of ThresholdTier: the tier of the admin who votes.
ThresholdTierOfVoter(p) == tier[proc[p].user]

\* commandWithDetails.user.tier: the tier of the command's owner, as stored.
ThresholdTier(p) == tier[commands[proc[p].cmd].userId]

\* The command with its owner and rule, the required approvals and the check.
VoteRead(p) ==
    LET c == proc[p].cmd
        req == getRequiredApprovals(BaseThreshold(commands[c].matchedRuleId),
                                    ThresholdTier(p))
    IN
    /\ proc[p].pc = "v_read"
    /\ proc' = [proc EXCEPT ![p] =
          IF EnoughApprovals(proc[p].cnt, req)
          THEN [proc[p] EXCEPT !.pc = "tx_read", !.req = req, !.via = "vote"]
          ELSE [Done(p, "awaiting_approval") EXCEPT !.req = req]]
    /\ UNCHANGED <<credits, tier, rules, commands, approvals, hist, nreq, call, auditUp, role, now, mail>>

\* ------------------------------------ POST /api/commands/:id/resubmit
\* authenticate, then findUnique with the matched rule, the owner check and
\* the executed check.
\* Mutant of NotOwner: an admin may resubmit anybody's command.
NotOwnerNorAdmin(c, u) == commands[c].userId # u /\ Role(u) # "admin"

\* command.userId !== req.user.id
NotOwner(c, u) == commands[c].userId # u

StartResubmit(p) ==
    \E u \in Users, c \in DOMAIN commands :
        /\ CanStart(p)
        /\ nreq < MaxRequests
        /\ nreq' = nreq + 1
        /\ LET r == [Idle EXCEPT !.kind = "resubmit", !.user = u, !.cmd = c]
           IN proc' = [proc EXCEPT ![p] =
                  CASE NotOwner(c, u) -> [r EXCEPT !.pc = "done", !.result = "forbidden"]
                    [] commands[c].status = "executed" ->
                          [r EXCEPT !.pc = "done", !.result = "already_executed"]
                    [] OTHER -> [r EXCEPT !.pc = "r_count", !.seen = commands[c].status,
                                          !.rule = commands[c].matchedRuleId]]
        /\ UNCHANGED <<credits, tier, rules, commands, approvals, hist, call, auditUp, role, now, mail>>

\* Mutant of ResubmitCount: the command is executed whatever the tally.
ResubmitCountUnchecked(p) ==
    /\ proc[p].pc = "r_count"
    /\ proc' = [proc EXCEPT ![p] =
          [proc[p] EXCEPT !.pc = "tx_read", !.cnt = ApprovedCount(proc[p].cmd),
                          !.via = "resubmit"]]
    /\ UNCHANGED <<credits, tier, rules, commands, approvals, hist, nreq, call, auditUp, role, now, mail>>

\* approval.count, the matched-rule check and the threshold check.
ResubmitCount(p) ==
    LET cnt == ApprovedCount(proc[p].cmd)
    IN
    /\ proc[p].pc = "r_count"
    /\ proc' = [proc EXCEPT ![p] =
          IF proc[p].rule = 0
          THEN Done(p, "no_matched_rule")
          ELSE LET req == getRequiredApprovals(rules[proc[p].rule].approvalThreshold,
                                               tier[proc[p].user])
               IN IF EnoughApprovals(cnt, req)
                  THEN [proc[p] EXCEPT !.pc = "tx_read", !.cnt = cnt, !.req = req,
                                       !.via = "resubmit"]
                  ELSE [Done(p, proc[p].seen) EXCEPT !.cnt = cnt, !.req = req]]
    /\ UNCHANGED <<credits, tier, rules, commands, approvals, hist, nreq, call, auditUp, role, now, mail>>

\* ---------------------------------------------------- POST /api/rules
NewActions == {"REQUIRE_APPROVAL", "EXECUTE"}
NewPriority == {90}
NewThresholds == {0, 1}

\* The action check, validateRegexPattern, detectRuleConflict and rule.create.
CreateRule ==
    \E pat \in NewPatterns, act \in NewActions, prio \in NewPriority, thr \in NewThresholds :
        /\ nreq < MaxRequests
        /\ nreq' = nreq + 1
        /\ rules' =
              IF /\ act \in Actions
                 /\ validateRegexPattern(pat)
                 /\ detectRuleConflict(rules, pat, 0) = {}
              THEN Append(rules, MkRule(pat, act, prio, thr, NoWindow))
              ELSE rules
        /\ UNCHANGED <<credits, tier, commands, approvals, proc, hist, call, auditUp, role, now, mail>>

\* ------------------------------------------------------- specification
Next ==
    \/ \E p \in Procs :
          \/ StartSubmit(p) \/ SubmitFind(p) \/ SubmitCreate(p) \/ SubmitMatch(p)
          \/ SubmitSetRule(p) \/ SubmitReject(p) \/ SubmitAwait(p)
          \/ StartVote(p) \/ VoteFind(p) \/ VoteCreate(p)
          \/ VoteReject(p) \/ VoteCount(p) \/ VoteRead(p)
          \/ StartResubmit(p) \/ ResubmitCount(p)
          \/ TxRead(p) \/ TxWrite(p)
    \/ CreateRule

Spec == Init /\ [][Next]_vars

TypeOK ==
    /\ nreq \in 0..MaxRequests
    /\ Len(hist) = Len(commands)

\* ------------------------------------------- the rule engine on its own
\* matchCommand on the rule tables of up to MaxRules rows over these patterns
\* and priorities that the API can build: each row's pattern had no conflict
\* with the rows before it.  The API also refuses a pattern that does not
\* compile; a row with one can only have been written to the table directly,
\* and matchCommand provides for it.
MaxRules == 3
EnginePatterns == {"sudo\\s+", "sudo", "reboot", "whoami", "a(b"}
EnginePriorities == {80, 90}
EngineTexts == {"sudo reboot", "sudo apt-get install", "whoami"}
EngineRules == {MkRule(pat, "REQUIRE_APPROVAL", prio, 1, NoWindow) :
                    pat \in EnginePatterns, prio \in EnginePriorities}
RuleStores ==
    {rs \in UNION {[1..n -> EngineRules] : n \in 0..MaxRules} :
        \A j \in DOMAIN rs :
            /\ \A i \in 1..(j - 1) : rs[i].pattern # rs[j].pattern
            /\ validateRegexPattern(rs[j].pattern)
                  => detectRuleConflict(SubSeq(rs, 1, j - 1), rs[j].pattern, 0) = {}}

InitMatch ==
    /\ credits = [u \in Users |-> InitCredits]
    /\ tier = [u \in Users |-> IF u \in Admins THEN "lead" ELSE "junior"]
    /\ rules \in RuleStores
    /\ commands = << >>
    /\ approvals = EmptyBag
    /\ proc = [p \in Procs |-> Idle]
    /\ hist = << >>
    /\ nreq = 0
    /\ call = NoCall
    /\ auditUp = TRUE
    /\ role = [u \in Users |-> seedRole(u)]
    /\ now = 0
    /\ mail = {}

\* matchCommand(text) on the table as it is; prev is what the previous call
\* returned if it was for the same text.
MatchCommandCall ==
    \E t \in EngineTexts : \E r \in matchCommand(rules, t) :
        /\ call' = [NoCall EXCEPT !.fn = "matchCommand", !.text = t, !.out = r,
                       !.prev = IF call.fn = "matchCommand" /\ call.text = t
                                THEN call.out ELSE -1]
        /\ UNCHANGED <<credits, tier, rules, commands, approvals, proc, hist, nreq, auditUp, role, now, mail>>

\* detectRuleConflict(newPattern, excludeRuleId) on the table as it is, for
\* the patterns that compile (both routes validate the pattern first): ids
\* is conflictingRules, out is 1 for hasConflict true and 0 for false.
DetectRuleConflictCall ==
    \E pat \in {x \in EnginePatterns : validateRegexPattern(x)}, ex \in 0..MaxRules :
        LET conflictingRules == detectRuleConflict(rules, pat, ex)
        IN /\ call' = [NoCall EXCEPT !.fn = "detectRuleConflict", !.text = pat,
                          !.exclude = ex, !.ids = conflictingRules,
                          !.out = IF Cardinality(conflictingRules) > 0 THEN 1 ELSE 0]
           /\ UNCHANGED <<credits, tier, rules, commands, approvals, proc, hist, nreq,
                          auditUp, role, now, mail>>

NextMatch == MatchCommandCall \/ DetectRuleConflictCall

SpecMatch == InitMatch /\ [][NextMatch]_vars

\* getEffectiveAction and getRequiredApprovals on arguments from these sets.
MaxThreshold == 8
Weekend == [present |-> TRUE, days |-> {0, 6}, startHour |-> 0, endHour |-> 24]
Overnight == [present |-> TRUE, days |-> {1, 2, 3, 4, 5}, startHour |-> 18, endHour |-> 9]
EngineWindows == {NoWindow, WorkWeek, Weekend, Overnight}
EngineDays == {0, 1, 5, 6}
EngineHours == {0, 8, 9, 17, 18, 23}
EngineTiers == Tiers \cup {"intern"}

\* getEffectiveAction(rule) with the clock at (day, hour).
GetEffectiveActionCall ==
    \E act \in Actions, win \in EngineWindows, day \in EngineDays, hour \in EngineHours :
        /\ call' = [NoCall EXCEPT !.fn = "getEffectiveAction", !.action = act,
                       !.window = win, !.day = day, !.hour = hour,
                       !.outAction = getEffectiveAction(MkRule("sudo", act, 1, 1, win),
                                                        day, hour)]
        /\ UNCHANGED <<credits, tier, rules, commands, approvals, proc, hist, nreq, auditUp, role, now, mail>>

\* getRequiredApprovals(baseThreshold, userTier)
GetRequiredApprovalsCall ==
    \E b \in 0..MaxThreshold, t \in EngineTiers :
        /\ call' = [NoCall EXCEPT !.fn = "getRequiredApprovals", !.base = b,
                       !.userTier = t, !.out = getRequiredApprovals(b, t)]
        /\ UNCHANGED <<credits, tier, rules, commands, approvals, proc, hist, nreq, auditUp, role, now, mail>>

NextEngine == GetEffectiveActionCall \/ GetRequiredApprovalsCall

SpecEngine == Init /\ [][NextEngine]_vars

\* ------------------------------------ a command waiting for its owner
\* The program after a first request of m1 has left a command behind and the
\* balance is nearly or wholly spent: 'sudo reboot' awaiting approval, with no
\* vote yet or with the approval of a1 (whose vote did not, or could not,
\* execute it), or 'ls -la' left pending by an execution that failed.  Admin
\* a1 has been given the tier junior; the audit table may be refusing writes.
PendingTexts == {"sudo reboot", "ls -la", "rm -rf /"}
LowCredits == {0, 1}

WaitingCommands ==
    {[command |-> [userId |-> "m1", commandText |-> "sudo reboot",
                   status |-> "awaiting_approval", matchedRuleId |-> 6,
                   executedAt |-> FALSE, createdAt |-> 0],
      verdict |-> "REQUIRE_APPROVAL", voters |-> vs] : vs \in {{}, {"a1"}}}
    \cup
    {[command |-> [userId |-> "m1", commandText |-> "ls -la", status |-> "pending",
                   matchedRuleId |-> 5, executedAt |-> FALSE, createdAt |-> 0],
      verdict |-> "AUTO_ACCEPT", voters |-> {}]}

InitPending ==
    /\ credits \in {f \in [Users -> LowCredits \cup {InitCredits}] :
                       /\ \A a \in Admins : f[a] = InitCredits
                       /\ \A m \in Members : f[m] \in LowCredits}
    /\ tier \in {f \in [Users -> Tiers] :
                    /\ f["a1"] = "junior" /\ f["a2"] = "lead"
                    /\ \A m \in Members : f[m] \in MemberTiers}
    /\ rules = defaultRules
    /\ \E w \in WaitingCommands :
          /\ commands = <<w.command>>
          /\ hist = <<[NoHist EXCEPT !.verdict = w.verdict]>>
          /\ approvals = SetToBag({[commandId |-> 1, approverId |-> a,
                                    decision |-> "approved"] : a \in w.voters})
    /\ proc = [p \in Procs |-> Idle]
    /\ nreq = 1
    /\ call = NoCall
    /\ auditUp \in BOOLEAN
    /\ role = [u \in Users |-> seedRole(u)]
    /\ now = 0
    /\ mail = {}

StartSubmitAgain(p) == StartSubmitOf(p, PendingTexts)

\* POST /api/users/:id/credits: an admin adds amount to the user's balance.
Amounts == {1}

ModifyCreditsBy(amounts) ==
    \E u \in Members, amount \in amounts :
        /\ \E a \in Users : requireAdmin(a)
        /\ nreq < MaxRequests
        /\ nreq' = nreq + 1
        /\ credits' = [credits EXCEPT ![u] = @ + amount]
        /\ UNCHANGED <<tier, rules, commands, approvals, proc, hist, call, auditUp, role, now, mail>>

ModifyCredits == ModifyCreditsBy(Amounts)

NextPending ==
    \/ \E p \in Procs :
          \/ StartSubmitAgain(p) \/ SubmitFind(p) \/ SubmitCreate(p) \/ SubmitMatch(p)
          \/ SubmitSetRule(p) \/ SubmitReject(p) \/ SubmitAwait(p)
          \/ StartVote(p) \/ VoteFind(p) \/ VoteCreate(p)
          \/ VoteReject(p) \/ VoteCount(p) \/ VoteRead(p)
          \/ StartResubmit(p) \/ ResubmitCount(p)
          \/ TxRead(p) \/ TxWrite(p)
    \/ ModifyCredits

SpecPending == InitPending /\ [][NextPending]_vars

\* ------------------------------------------------------ administration
\* The rule and user routes next to the command workflow.  Each of these
\* handlers makes one write; its answer is kept in call (fn and out, the
\* HTTP status).
Response(fn, status) == [NoCall EXCEPT !.fn = fn, !.out = status]

AdminTexts == {"sudo reboot"}
AdminPatterns == {"reboot", "a(b", "sudo"}
AdminActions == {"AUTO_REJECT", "EXECUTE"}
AdminThresholds == {0, 3}
AdminPriority == {90}

\* POST /api/rules by user u.
PostRule(u, pat, act, prio, thr) ==
    LET ok == /\ act \in Actions
              /\ validateRegexPattern(pat)
              /\ detectRuleConflict(rules, pat, 0) = {}
    IN
    /\ nreq < MaxRequests
    /\ nreq' = nreq + 1
    /\ IF ~requireAdmin(u)
       THEN /\ call' = Response("postRule", 403)
            /\ UNCHANGED rules
       ELSE /\ rules' = IF ok THEN Append(rules, MkRule(pat, act, prio, thr, NoWindow))
                               ELSE rules
            /\ call' = Response("postRule", IF ok THEN 201 ELSE 400)
    /\ UNCHANGED <<credits, tier, commands, approvals, proc, hist, auditUp, role, now, mail>>

\* The rules the admins update, and the bodies they send: pattern "" and
\* action "" stand for a field left out.
PutIds == {6}
PutPatterns == {"", "a(b", "^(ls|cat|pwd|echo)", "sudo"}
PutActions == {"", "EXECUTE"}

\* PUT /api/rules/:id by user u.
PutRule(u, id, pat, act, setThreshold, thr) ==
    /\ nreq < MaxRequests
    /\ nreq' = nreq + 1
    /\ id \in DOMAIN rules
    /\ IF ~requireAdmin(u)
       THEN /\ call' = Response("putRule", 403)
            /\ UNCHANGED rules
       ELSE IF pat # "" /\ (\/ ~validateRegexPattern(pat)
                            \/ detectRuleConflict(rules, pat, id) # {})
       THEN /\ call' = Response("putRule", 400)
            /\ UNCHANGED rules
       ELSE /\ rules' = [rules EXCEPT ![id] =
                  [@ EXCEPT !.pattern = IF pat # "" THEN pat ELSE @,
                            !.action = IF act \in Actions THEN act ELSE @,
                            !.approvalThreshold = IF setThreshold THEN thr ELSE @]]
            /\ call' = Response("putRule", 200)
    /\ UNCHANGED <<credits, tier, commands, approvals, proc, hist, auditUp, role, now, mail>>

NewRoles == {"admin", "member"}
NewCredits == {-1, 0}
AdminAmounts == {-5, 1}

\* PUT /api/users/:id by user u: a role of the two and credits >= 0 are
\* taken over, anything else in the body is left out of the update.
UpdateUser(u, id, newRole, setCredits, newCredits) ==
    /\ nreq < MaxRequests
    /\ nreq' = nreq + 1
    /\ IF ~requireAdmin(u)
       THEN /\ call' = Response("putUser", 403)
            /\ UNCHANGED <<role, credits>>
       ELSE /\ role' = [role EXCEPT ![id] = IF newRole \in NewRoles THEN newRole ELSE @]
            /\ credits' = [credits EXCEPT ![id] =
                  IF setCredits /\ newCredits >= 0 THEN newCredits ELSE @]
            /\ call' = Response("putUser", 200)
    /\ UNCHANGED <<tier, rules, commands, approvals, proc, hist, auditUp, now, mail>>

AddCredits == ModifyCreditsBy(AdminAmounts)

StartSubmitAdmin(p) == StartSubmitOf(p, AdminTexts)

NextAdmin ==
    \/ \E p \in Procs :
          \/ StartSubmitAdmin(p) \/ SubmitFind(p) \/ SubmitCreate(p) \/ SubmitMatch(p)
          \/ SubmitSetRule(p) \/ SubmitReject(p) \/ SubmitAwait(p)
          \/ StartVote(p) \/ VoteFind(p) \/ VoteCreate(p)
          \/ VoteReject(p) \/ VoteCount(p) \/ VoteRead(p)
          \/ StartResubmit(p) \/ ResubmitCount(p)
          \/ TxRead(p) \/ TxWrite(p)
    \/ \E u \in Users, pat \in AdminPatterns, act \in AdminActions,
          prio \in AdminPriority, thr \in AdminThresholds :
          PostRule(u, pat, act, prio, thr)
    \/ \E u \in Users, id \in PutIds, pat \in PutPatterns, act \in PutActions,
          setThreshold \in BOOLEAN, thr \in AdminThresholds :
          PutRule(u, id, pat, act, setThreshold, thr)
    \/ \E u \in Users, id \in Users, newRole \in NewRoles, setCredits \in BOOLEAN,
          newCredits \in NewCredits :
          UpdateUser(u, id, newRole, setCredits, newCredits)
    \/ AddCredits

SpecAdmin == Init /\ [][NextAdmin]_vars

\* ---------------------------------------------------------- escalation
\* ESCALATION_TIMEOUT_MS = 60 * 60 * 1000, in half hours.
ESCALATION_TIMEOUT_MS == 2
\* The clock stops at this many half hours.
MaxTime == 3

\* Date.now() advances by half an hour.
Tick ==
    /\ now < MaxTime
    /\ now' = now + 1
    /\ UNCHANGED <<credits, tier, rules, commands, approvals, proc, hist, nreq, call,
                   auditUp, role, mail>>

\* Mutant of getPendingEscalations: createdAt lte cutoffTime.
getPendingEscalationsLte(cs, t) ==
    LET cutoffTime == t - ESCALATION_TIMEOUT_MS
    IN {c \in DOMAIN cs : /\ cs[c].status = "awaiting_approval"
                          /\ cs[c].createdAt <= cutoffTime}

\* getPendingEscalations: findMany where status is awaiting_approval and
\* createdAt lt cutoffTime, the cutoff being Date.now() less the timeout.
getPendingEscalations(cs, t) ==
    LET cutoffTime == t - ESCALATION_TIMEOUT_MS
    IN {c \in DOMAIN cs : /\ cs[c].status = "awaiting_approval"
                          /\ cs[c].createdAt < cutoffTime}

\* A call of getPendingEscalations; the ids of the rows it returns are kept.
GetPendingEscalationsCall ==
    /\ nreq < MaxRequests
    /\ nreq' = nreq + 1
    /\ call' = [NoCall EXCEPT !.fn = "getPendingEscalations",
                              !.ids = getPendingEscalations(commands, now)]
    /\ UNCHANGED <<credits, tier, rules, commands, approvals, proc, hist, auditUp,
                   role, now, mail>>

\* escalateToAdmin(command): logAudit COMMAND_ESCALATED and a console line.
EscalateToAdmin ==
    \E c \in DOMAIN commands :
        /\ nreq < MaxRequests
        /\ nreq' = nreq + 1
        /\ call' = [NoCall EXCEPT !.fn = "escalateToAdmin", !.out = c]
        /\ UNCHANGED <<credits, tier, rules, commands, approvals, proc, hist, auditUp,
                       role, now, mail>>

\* The program after m1 has submitted 'sudo reboot' at time 0 and 'docker run
\* nginx' half an hour later, outside the rule's working hours: both commands
\* are awaiting approval and nobody has voted.
EscalationTexts == {"sudo reboot", "docker run nginx"}

EscalationCommands ==
    << [userId |-> "m1", commandText |-> "sudo reboot", status |-> "awaiting_approval",
        matchedRuleId |-> 6, executedAt |-> FALSE, createdAt |-> 0],
       [userId |-> "m1", commandText |-> "docker run nginx", status |-> "awaiting_approval",
        matchedRuleId |-> 7, executedAt |-> FALSE, createdAt |-> 1] >>

InitEscalation ==
    /\ credits = [u \in Users |-> InitCredits]
    /\ tier \in {f \in [Users -> Tiers] :
                    /\ \A a \in Admins : f[a] = "lead"
                    /\ \A m \in Members : f[m] \in MemberTiers}
    /\ rules = defaultRules
    /\ commands = EscalationCommands
    /\ hist = [c \in DOMAIN EscalationCommands |->
                  [NoHist EXCEPT !.verdict = "REQUIRE_APPROVAL"]]
    /\ approvals = EmptyBag
    /\ proc = [p \in Procs |-> Idle]
    /\ nreq = 1
    /\ call = NoCall
    /\ auditUp = TRUE
    /\ role = [u \in Users |-> seedRole(u)]
    /\ now = 1
    /\ mail = {}

StartSubmitEscalation(p) == StartSubmitOf(p, EscalationTexts)

NextEscalation ==
    \/ \E p \in Procs :
          \/ StartSubmitEscalation(p) \/ SubmitFind(p) \/ SubmitCreate(p) \/ SubmitMatch(p)
          \/ SubmitSetRule(p) \/ SubmitAwait(p)
          \/ StartVote(p) \/ VoteFind(p) \/ VoteCreate(p)
          \/ VoteReject(p) \/ VoteCount(p) \/ VoteRead(p)
          \/ StartResubmit(p) \/ ResubmitCount(p)
          \/ TxRead(p) \/ TxWrite(p)
    \/ Tick
    \/ GetPendingEscalationsCall
    \/ EscalateToAdmin

SpecEscalation == InitEscalation /\ [][NextEscalation]_vars

\* =============================================================== claims
\* Definitions the claims are stated with, independent of the handlers.
Executions(c) ==
    hist[c].execs["vote"] + hist[c].execs["resubmit"]
        + hist[c].execs["submit_dup"] + hist[c].execs["submit_new"]

VotesIn(table, c, a) ==
    LET S == {r \in BagToSet(table) : r.commandId = c /\ r.approverId = a}
    IN BagCardinality([r \in S |-> table[r]])

VotesOf(c, a) == VotesIn(approvals, c, a)

Steps(p) == proc'[p] # proc[p]

TierAdjusted(thr, t) ==
    CASE t = "lead" -> IF thr \div 2 >= 1 THEN thr \div 2 ELSE 1
      [] t = "senior" -> IF (3 * thr) \div 4 >= 1 THEN (3 * thr) \div 4 ELSE 1
      [] OTHER -> thr

RuleThreshold(c) ==
    IF commands[c].matchedRuleId = 0 THEN 1
    ELSE rules[commands[c].matchedRuleId].approvalThreshold

NoRuleMatches(text) ==
    \A i \in DOMAIN rules :
        ~(validateRegexPattern(rules[i].pattern) /\ RegexTest(rules[i].pattern, text))

\* C1: under concurrent 'approved' votes of distinct admins that reach the
\* threshold, the votes execute the command exactly once and debit its owner
\* exactly once: no command is executed by votes more than once.
C1_ExactlyOnceUnderVotes ==
    \A c \in DOMAIN commands : hist[c].execs["vote"] <= 1

\* C2: across votes, resubmit and duplicate-text submit, executeCommand
\* succeeds at most once per command (at most one debit per command).
C2_NoDoubleExecution ==
    \A c \in DOMAIN commands : Executions(c) <= 1

\* C3: the Approval table holds at most one record per (commandId, approverId).
C3_OneVotePerAdmin ==
    \A c \in DOMAIN commands : \A a \in Users : VotesOf(c, a) <= 1

\* C3 witness: one admin's two concurrent votes both passed the prior read, and
\* the second insert was refused.
C3_Witness ==
    \E p \in Procs :
        /\ proc[p].pc = "done" /\ proc[p].kind = "vote" /\ proc[p].result = "error"
        /\ VotesOf(proc[p].cmd, proc[p].user) = 1

\* C4: addApproval called by an approver who already has a vote on the command
\* returns the already-voted outcome and changes no vote, status or balance.
C4_DuplicateVoteIdempotent ==
    [][\A p \in Procs :
          (proc[p].pc = "v_find" /\ Steps(p) /\ VotesOf(proc[p].cmd, proc[p].user) >= 1)
          => /\ proc'[p].pc = "done"
             /\ proc'[p].result = "already_voted"
             /\ approvals' = approvals
             /\ commands' = commands
             /\ credits' = credits]_vars

\* C4 witness: a second vote of the same admin was answered already-voted.
C4_Witness ==
    \E p \in Procs :
        /\ proc[p].pc = "done" /\ proc[p].kind = "vote"
        /\ proc[p].result = "already_voted"
        /\ VotesOf(proc[p].cmd, proc[p].user) = 1

\* C5: no user's credits are ever negative.
C5_CreditsNonNegative ==
    \A u \in Users : credits[u] >= 0

\* C6: once a command is executed or rejected its status never changes again.
C6_TerminalStable ==
    [][\A c \in DOMAIN commands :
          commands[c].status \in {"executed", "rejected"}
          => commands'[c].status = commands[c].status]_vars

\* C7: a 'rejected' vote of an admin who has not voted is recorded and then
\* sets the command's status to rejected, whatever the number of 'approved'
\* votes, and leaves every balance unchanged.
C7_SingleRejection ==
    [][\A p \in Procs :
          /\ (/\ proc[p].pc = "v_create" /\ Steps(p)
              /\ proc[p].decision = "rejected"
              /\ VotesOf(proc[p].cmd, proc[p].user) = 0)
             => /\ proc'[p].pc = "v_reject"
                /\ VotesIn(approvals', proc[p].cmd, proc[p].user) = 1
                /\ credits' = credits
          /\ (proc[p].pc = "v_reject" /\ Steps(p))
             => /\ commands'[proc[p].cmd].status = "rejected"
                /\ proc'[p].pc = "done"
                /\ proc'[p].result = "rejected"
                /\ credits' = credits]_vars

\* C7 witness: a rejection answered on a command that had an 'approved' vote.
C7_Witness ==
    \E p \in Procs :
        /\ proc[p].pc = "done" /\ proc[p].kind = "vote" /\ proc[p].result = "rejected"
        /\ commands[proc[p].cmd].status = "rejected"
        /\ Approvers(proc[p].cmd) # {}

\* C8: an 'approved' vote counts the approving admins; below the tier-adjusted
\* threshold r of the command's rule and owner it leaves the status as it is
\* and answers awaiting_approval with count/r; at or above r it runs the
\* execution, which with a positive balance sets executed and debits one
\* credit.  Threshold 2 needs two approvals for a junior and one for a lead.
C8_VoteProgress ==
    [][\A p \in Procs :
          LET c == proc[p].cmd
              o == commands[c].userId
              r == TierAdjusted(RuleThreshold(c), tier[o])
          IN
          /\ getRequiredApprovals(2, "junior") = 2
          /\ getRequiredApprovals(2, "lead") = 1
          /\ (proc[p].pc = "v_count" /\ Steps(p))
             => proc'[p].cnt = Cardinality(Approvers(c))
          /\ (proc[p].pc = "v_read" /\ Steps(p))
             => IF proc[p].cnt < r
                THEN /\ proc'[p].pc = "done"
                     /\ proc'[p].result = "awaiting_approval"
                     /\ proc'[p].cnt = proc[p].cnt
                     /\ proc'[p].req = r
                     /\ commands' = commands
                     /\ credits' = credits
                ELSE proc'[p].pc = "tx_read"
          /\ (proc[p].pc = "tx_read" /\ proc[p].via = "vote" /\ Steps(p) /\ credits[o] > 0)
             => proc'[p].pc = "tx_write"
          /\ (proc[p].pc = "tx_write" /\ proc[p].via = "vote" /\ Steps(p))
             => /\ commands'[c].status = "executed"
                /\ credits'[o] = credits[o] - 1
                /\ proc'[p].result = "executed"]_vars

\* C8 witness: the second approval of a junior's threshold-2 command executed it.
C8_Witness ==
    \E p \in Procs :
        /\ proc[p].pc = "done" /\ proc[p].kind = "vote" /\ proc[p].result = "executed"
        /\ proc[p].cnt = 2 /\ proc[p].req = 2
        /\ tier[commands[proc[p].cmd].userId] = "junior"
        /\ commands[proc[p].cmd].status = "executed"

\* C9: a command whose verdict at submission was REQUIRE_APPROVAL is executed
\* only with at least requiredApprovals, and at least one, approving admins.
C9_Quorum ==
    \A c \in DOMAIN commands :
        (hist[c].verdict = "REQUIRE_APPROVAL" /\ Executions(c) > 0)
        => /\ hist[c].approvedAtExec >= hist[c].requiredAtExec
           /\ hist[c].approvedAtExec >= 1

\* C10: a submitted text that no rule matches yields a rejected command and a
\* rejected answer, changes no balance, and the command is never executed.
C10_FailClosed ==
    /\ [](\A c \in DOMAIN commands :
             commands[c].matchedRuleId = 0
             => /\ commands[c].status \in {"pending", "rejected"}
                /\ Executions(c) = 0)
    /\ [][\A p \in Procs :
             /\ (proc[p].pc = "s_match" /\ Steps(p) /\ NoRuleMatches(proc[p].text))
                => /\ proc'[p].pc = "s_reject"
                   /\ commands'[proc[p].cmd].matchedRuleId = 0
                   /\ credits' = credits
             /\ (proc[p].pc = "s_reject" /\ Steps(p))
                => /\ commands'[proc[p].cmd].status = "rejected"
                   /\ proc'[p].pc = "done"
                   /\ proc'[p].result = "rejected"
                   /\ credits' = credits]_vars

\* C10 witness: the submit of an unmatched text answered rejected.
C10_Witness ==
    \E p \in Procs :
        /\ proc[p].pc = "done" /\ proc[p].kind = "submit" /\ proc[p].result = "rejected"
        /\ NoRuleMatches(commands[proc[p].cmd].commandText)
        /\ commands[proc[p].cmd].matchedRuleId = 0
        /\ commands[proc[p].cmd].status = "rejected"

\* C11 (as claimed): a submission by a user who passed the credits gate, whose
\* matched rule has effective action AUTO_ACCEPT, always executes: the
\* execution goes ahead, the answer is executed, the command's status is
\* executed and the user's credits go down by exactly 1.
C11_AutoAcceptExecutes ==
    [][\A p \in Procs :
          /\ (proc[p].pc = "tx_read" /\ proc[p].via = "submit_new" /\ Steps(p))
             => proc'[p].pc = "tx_write"
          /\ (proc[p].pc = "tx_write" /\ proc[p].via = "submit_new" /\ Steps(p))
             => /\ proc'[p].result = "executed"
                /\ commands'[proc[p].cmd].status = "executed"
                /\ credits'[proc[p].user] = credits[proc[p].user] - 1]_vars

\* C11 (amended): such a submission is sent to execution; if the balance
\* re-read in the transaction is still > 0 the answer is executed, the status
\* is executed and the credits go down by exactly 1; if the user's concurrent
\* requests have spent the balance meanwhile, the answer is the execution
\* error with status pending and neither balance nor command changes.
C11_AutoAcceptExecutesIfFunded ==
    [][\A p \in Procs :
          LET c == proc[p].cmd
              u == proc[p].user
          IN
          /\ (proc[p].pc = "s_setrule" /\ Steps(p))
             => /\ rules[proc[p].rule].action = "AUTO_ACCEPT"
                      => hist'[c].verdict = "AUTO_ACCEPT"
                /\ hist'[c].verdict = "AUTO_ACCEPT"
                      <=> (proc'[p].pc = "tx_read" /\ proc'[p].via = "submit_new")
          /\ (proc[p].pc = "tx_read" /\ proc[p].via = "submit_new" /\ Steps(p))
             => IF credits[u] > 0
                THEN proc'[p].pc = "tx_write"
                ELSE /\ proc'[p].pc = "done"
                     /\ proc'[p].result = "pending"
                     /\ commands' = commands
                     /\ credits' = credits
          /\ (proc[p].pc = "tx_write" /\ proc[p].via = "submit_new" /\ Steps(p))
             => /\ proc'[p].result = "executed"
                /\ commands'[c].status = "executed"
                /\ credits'[u] = credits[u] - 1]_vars

\* C11 witness: 'ls -la' was submitted, executed and answered executed.
C11_Witness ==
    \E p \in Procs :
        /\ proc[p].pc = "done" /\ proc[p].kind = "submit" /\ proc[p].result = "executed"
        /\ proc[p].cmd # 0
        /\ commands[proc[p].cmd].commandText = "ls -la"
        /\ commands[proc[p].cmd].status = "executed"
        /\ hist[proc[p].cmd].verdict = "AUTO_ACCEPT"
        /\ hist[proc[p].cmd].execs["submit_new"] = 1

\* C12: a submission whose matched rule has action AUTO_REJECT goes to
\* rejectCommand and never to execution: the command's status becomes
\* rejected, the answer is rejected, and no balance changes.
C12_AutoRejectRejects ==
    [][\A p \in Procs :
          LET c == proc[p].cmd
          IN
          /\ (/\ proc[p].pc = "s_setrule" /\ Steps(p)
              /\ rules[proc[p].rule].action = "AUTO_REJECT")
             => /\ proc'[p].pc = "s_reject"
                /\ hist'[c].verdict = "AUTO_REJECT"
                /\ hist'[c].execs = hist[c].execs
                /\ commands'[c].status = commands[c].status
                /\ credits' = credits
          /\ (proc[p].pc = "s_reject" /\ Steps(p))
             => /\ commands'[c].status = "rejected"
                /\ commands'[c].executedAt = commands[c].executedAt
                /\ proc'[p].pc = "done"
                /\ proc'[p].result = "rejected"
                /\ hist' = hist
                /\ credits' = credits]_vars

\* C12 witness: 'rm -rf /' was submitted and answered rejected, with no
\* execution and the balance as it was.
C12_Witness ==
    \E p \in Procs :
        /\ proc[p].pc = "done" /\ proc[p].kind = "submit" /\ proc[p].result = "rejected"
        /\ proc[p].cmd # 0
        /\ commands[proc[p].cmd].commandText = "rm -rf /"
        /\ commands[proc[p].cmd].status = "rejected"
        /\ hist[proc[p].cmd].verdict = "AUTO_REJECT"
        /\ Executions(proc[p].cmd) = 0
        /\ credits[proc[p].user] = InitCredits

\* C13: executeCommand fails whenever the balance it re-reads in the
\* transaction is <= 0, and a failed executeCommand leaves every balance and
\* every command (status, executedAt) as they were: nothing is written.
C13_FailedExecutionMutatesNothing ==
    [][\A p \in Procs :
          LET o == commands[proc[p].cmd].userId
          IN
          (proc[p].pc = "tx_read" /\ Steps(p))
          => /\ credits[o] <= 0 => proc'[p].pc # "tx_write"
             /\ proc'[p].pc # "tx_write"
                   => /\ credits' = credits
                      /\ commands' = commands
                      /\ hist' = hist
                      /\ proc'[p].result # "executed"]_vars

\* C13 witness: an execution failed on a spent balance; the command is still
\* pending, was never executed, and the balance is what it was.
C13_Witness ==
    \E p \in Procs :
        /\ proc[p].pc = "done" /\ proc[p].kind = "submit" /\ proc[p].result = "pending"
        /\ commands[proc[p].cmd].status = "pending"
        /\ commands[proc[p].cmd].executedAt = FALSE
        /\ Executions(proc[p].cmd) = 0
        /\ credits[proc[p].user] = 0

\* C14: a successful executeCommand leaves the owner's credits exactly 1 below
\* the balance it re-read in its transaction, sets the command's status to
\* executed with executedAt, and changes no other user's credits and no other
\* command.
C14_SuccessfulExecutionEffect ==
    [][\A p \in Procs :
          LET c == proc[p].cmd
              o == commands[c].userId
          IN
          (proc[p].pc = "tx_write" /\ Steps(p))
          => /\ credits'[o] = proc[p].bal - 1
             /\ commands'[c].status = "executed"
             /\ commands'[c].executedAt = TRUE
             /\ proc'[p].result = "executed"
             /\ \A u \in Users \ {o} : credits'[u] = credits[u]
             /\ \A d \in DOMAIN commands \ {c} : commands'[d] = commands[d]]_vars

\* C15: a submission by a user whose credits are <= 0 is refused at once with
\* the insufficient-credits error: no command is created, no rule matched, no
\* command or balance changes; a user with credits > 0 passes the gate.
C15_SubmissionCreditGate ==
    [][\A p \in Procs :
          (Free(p) /\ Steps(p) /\ proc'[p].kind = "submit")
          => LET u == proc'[p].user
             IN IF credits[u] <= 0
                THEN /\ proc'[p].pc = "done"
                     /\ proc'[p].result = "insufficient_credits"
                     /\ proc'[p].cmd = 0
                     /\ proc'[p].rule = 0
                     /\ commands' = commands
                     /\ hist' = hist
                     /\ credits' = credits
                ELSE proc'[p].pc = "s_find"]_vars

\* C15 witness: a user who has spent the whole balance submitted again and was
\* refused.
C15_Witness ==
    \E p \in Procs :
        /\ proc[p].pc = "done" /\ proc[p].kind = "submit"
        /\ proc[p].result = "insufficient_credits"
        /\ proc[p].cmd = 0
        /\ credits[proc[p].user] <= 0

\* C16: for every rule table and text, matchCommand returns a rule whose
\* pattern compiles and matches the text and whose priority is the highest
\* among such rules (a rule whose pattern does not compile is skipped), and
\* returns none exactly when no rule with a compiling pattern matches.
C16_RulePrecedence ==
    call.fn = "matchCommand"
    => LET M == {i \in DOMAIN rules :
                    /\ validateRegexPattern(rules[i].pattern)
                    /\ RegexTest(rules[i].pattern, call.text)}
       IN /\ call.out = 0 <=> M = {}
          /\ call.out # 0
                => /\ call.out \in M
                   /\ \A j \in M : rules[j].priority <= rules[call.out].priority

\* C16 witness: the rule returned was created after a matching rule of lower
\* priority and after a rule of the top priority whose pattern does not compile.
C16_Witness ==
    /\ call.fn = "matchCommand" /\ call.out = 3
    /\ RegexTest(rules[1].pattern, call.text)
    /\ rules[1].priority < rules[3].priority
    /\ ~validateRegexPattern(rules[2].pattern)
    /\ rules[2].priority = rules[3].priority

\* C17: on an unchanged rule table, two calls of matchCommand with the same
\* text return the same rule, also when matching rules tie on priority.
C17_DeterministicTieBreak ==
    (call.fn = "matchCommand" /\ call.prev # -1) => call.out = call.prev

\* C18: getEffectiveAction returns AUTO_ACCEPT when the rule's action is
\* REQUIRE_APPROVAL, a window is present, the weekday is in its days and
\* startHour <= hour < endHour (the end hour itself is outside); in every
\* other case, whatever the window, it returns the rule's action.
C18_EffectiveAction ==
    call.fn = "getEffectiveAction"
    => LET w == call.window
           inWindow == /\ w.present
                       /\ call.day \in w.days
                       /\ w.startHour <= call.hour
                       /\ call.hour < w.endHour
       IN /\ (call.action = "REQUIRE_APPROVAL" /\ inWindow)
                => call.outAction = "AUTO_ACCEPT"
          /\ ~(call.action = "REQUIRE_APPROVAL" /\ inWindow)
                => call.outAction = call.action
          /\ call.hour = w.endHour
                => call.outAction = call.action

\* C18 witness: at the first hour of its window on a day of its window, a
\* REQUIRE_APPROVAL rule was resolved to AUTO_ACCEPT.
C18_Witness ==
    /\ call.fn = "getEffectiveAction"
    /\ call.action = "REQUIRE_APPROVAL"
    /\ call.window = WorkWeek
    /\ call.day = 5
    /\ call.hour = 9
    /\ call.outAction = "AUTO_ACCEPT"

\* C19: for the threshold of every rule in the table and every tier,
\* getRequiredApprovals is at least 1, and for a fixed threshold it does not
\* increase from junior to senior to lead; a submission parked for approval
\* was told a requirement of at least 1.
C19_RequiredApprovalsBound ==
    /\ \A i \in DOMAIN rules :
          LET b == rules[i].approvalThreshold
          IN /\ \A t \in Tiers : getRequiredApprovals(b, t) >= 1
             /\ getRequiredApprovals(b, "junior") >= getRequiredApprovals(b, "senior")
             /\ getRequiredApprovals(b, "senior") >= getRequiredApprovals(b, "lead")
    /\ \A p \in Procs : proc[p].pc = "s_await" => proc[p].req >= 1

\* floor(num / den) for den > 0, from its defining inequalities.
FloorOf(num, den) ==
    CHOOSE k \in (0 - num - 1)..(num + 1) : den * k <= num /\ num < den * (k + 1)

C21_ReadmeTierTable ==
    (call.fn = "getRequiredApprovals" /\ call.userTier \in Tiers)
    => call.out = CASE call.userTier = "junior" -> call.base
                    [] call.userTier = "senior" -> call.base - 1
                    [] call.userTier = "lead" -> call.base - 2

\* C22: whether an 'approved' vote goes on to execute the command is decided
\* by the approved count against the threshold of the command's matched rule
\* adjusted by the tier of the command's owner as stored at the check; the
\* tier of the admin who votes has no part in it.
C22_ThresholdUsesOwnerTier ==
    [][\A p \in Procs :
          LET c == proc[p].cmd
              base == IF RuleThreshold(c) = 0 THEN 1 ELSE RuleThreshold(c)
              r == TierAdjusted(base, tier[commands[c].userId])
          IN (proc[p].pc = "v_read" /\ Steps(p))
             => /\ proc'[p].pc = "tx_read" <=> proc[p].cnt >= r
                /\ proc'[p].pc # "tx_read"
                      => /\ proc'[p].pc = "done"
                         /\ proc'[p].result = "awaiting_approval"
                /\ proc'[p].req = r]_vars

\* C22 witness: the lead admin's approval of a junior's threshold-2 command
\* was answered 1/2, not executed as a lead's own threshold of 1 would have it.
C22_Witness ==
    \E p \in Procs :
        /\ proc[p].pc = "done" /\ proc[p].kind = "vote"
        /\ proc[p].result = "awaiting_approval"
        /\ tier[proc[p].user] = "lead"
        /\ tier[commands[proc[p].cmd].userId] = "junior"
        /\ proc[p].cnt = 1 /\ proc[p].req = 2

\* The user's awaiting_approval commands with the given text.
OwnAwaiting(u, t) ==
    {c \in DOMAIN commands : /\ commands[c].userId = u
                             /\ commands[c].commandText = t
                             /\ commands[c].status = "awaiting_approval"}

\* C23: a submission whose text equals that of the user's own (most recent)
\* awaiting_approval command, while that command's approved count is below
\* the tier-adjusted threshold, answers awaiting_approval with that command's
\* id and tally; it creates no command, runs no rule match and changes no
\* status, vote or credit.
C23_DuplicateShortOfThreshold ==
    [][\A p \in Procs :
          LET S == OwnAwaiting(proc[p].user, proc[p].text)
              c == CHOOSE x \in S : \A d \in S : d <= x
              r == TierAdjusted(RuleThreshold(c), tier[proc[p].user])
          IN (/\ proc[p].pc = "s_find" /\ Steps(p)
              /\ S # {}
              /\ ApprovedCount(c) < r)
             => /\ proc'[p].pc = "done"
                /\ proc'[p].result = "awaiting_approval"
                /\ proc'[p].cmd = c
                /\ proc'[p].cnt = ApprovedCount(c) /\ proc'[p].req = r
                /\ UNCHANGED <<commands, approvals, credits, hist, call>>]_vars

\* C23 witness: a second submission of the same text was answered with the
\* tally 1/2 of the command that is still waiting; no command was added.
C23_Witness ==
    \E p \in Procs :
        /\ proc[p].pc = "done" /\ proc[p].kind = "submit"
        /\ proc[p].result = "awaiting_approval"
        /\ proc[p].cnt = 1 /\ proc[p].req = 2
        /\ commands[proc[p].cmd].status = "awaiting_approval"
        /\ ApprovedCount(proc[p].cmd) = 1
        /\ Len(commands) = 1

\* C24: a submission that found the user's most recent awaiting_approval
\* command with the same text at its threshold continues that workflow: the
\* execution attempt ends the request with an answer about that command, and
\* the request never goes on to create a Command record, also when the
\* execution attempt fails.
C24_DuplicateAtThresholdOpensNothing ==
    [][\A p \in Procs :
          (/\ proc[p].pc \in {"tx_read", "tx_write"}
           /\ proc[p].via = "submit_dup"
           /\ Steps(p))
          => /\ proc'[p].pc \in {"tx_write", "done"}
             /\ proc'[p].cmd = proc[p].cmd
             /\ Len(commands') = Len(commands)]_vars

\* C25: a resubmit by a user who is not the command's owner is answered
\* access denied, and a resubmit of a command in status executed fails; in
\* both cases no command, vote or credit balance changes.
C25_ResubmitGuards ==
    [][\A p \in Procs :
          LET c == proc'[p].cmd
              u == proc'[p].user
          IN (Free(p) /\ Steps(p) /\ proc'[p].kind = "resubmit")
             => /\ commands[c].userId # u
                      => proc'[p].pc = "done" /\ proc'[p].result = "forbidden"
                /\ (commands[c].userId = u /\ commands[c].status = "executed")
                      => proc'[p].pc = "done" /\ proc'[p].result = "already_executed"
                /\ (commands[c].userId # u \/ commands[c].status = "executed")
                      => UNCHANGED <<commands, approvals, credits, hist>>]_vars

\* C25 witness: an admin's resubmit of a member's waiting command was refused
\* and the command still waits with its votes.
C25_Witness ==
    \E p \in Procs :
        /\ proc[p].pc = "done" /\ proc[p].kind = "resubmit"
        /\ proc[p].result = "forbidden"
        /\ Role(proc[p].user) = "admin"
        /\ commands[proc[p].cmd].userId # proc[p].user
        /\ commands[proc[p].cmd].status = "awaiting_approval"

\* C26: a resubmit goes on to execute the command only when the command's
\* current count of 'approved' votes is at least the tier-adjusted threshold
\* of the rule recorded at submission (the matchedRule the resubmit loaded);
\* otherwise it reports the tally and leaves commands, votes and credits as
\* they are. No step of a resubmit creates a Command record, changes a
\* matchedRuleId or runs a rule match, and a recorded matchedRuleId is never
\* replaced.
C26_ResubmitNeverRematches ==
    [][/\ \A d \in DOMAIN commands :
             commands[d].matchedRuleId # 0
                => commands'[d].matchedRuleId = commands[d].matchedRuleId
       /\ \A p \in Procs :
          LET c == proc[p].cmd
              rid == proc[p].rule
              r == TierAdjusted(rules[rid].approvalThreshold, tier[proc[p].user])
          IN /\ (Free(p) /\ Steps(p) /\ proc'[p].kind = "resubmit"
                                     /\ proc'[p].pc = "r_count")
                => proc'[p].rule = commands[proc'[p].cmd].matchedRuleId
             /\ (proc[p].pc = "r_count" /\ Steps(p))
                => /\ proc'[p].pc = "tx_read" <=> (rid # 0 /\ ApprovedCount(c) >= r)
                   /\ proc'[p].pc # "tx_read"
                         => /\ proc'[p].pc = "done"
                            /\ proc'[p].result # "executed"
                            /\ rid # 0 => /\ proc'[p].cnt = ApprovedCount(c)
                                           /\ proc'[p].req = r
                   /\ UNCHANGED <<commands, approvals, credits>>
             /\ (proc[p].kind = "resubmit" /\ ~Free(p) /\ Steps(p))
                => /\ Len(commands') = Len(commands)
                   /\ \A d \in DOMAIN commands :
                         commands'[d].matchedRuleId = commands[d].matchedRuleId
                   /\ \A d \in DOMAIN hist : hist'[d].verdict = hist[d].verdict
                   /\ call' = call
                   /\ proc'[p].result = "executed"
                         => rid # 0 /\ ApprovedCount(c) >= r]_vars

\* C26 witness: one resubmit executed a command that had its approvals, and
\* another was answered with the tally of a command still short of them;
\* here the first of the two.
C26_Witness ==
    \E p \in Procs :
        /\ proc[p].pc = "done" /\ proc[p].kind = "resubmit"
        /\ proc[p].result = "executed"
        /\ commands[proc[p].cmd].status = "executed"
        /\ commands[proc[p].cmd].matchedRuleId = 6
        /\ proc[p].cnt >= proc[p].req /\ proc[p].req >= 1
        /\ Len(commands) = 1

\* C27: when the execution started by a threshold-reaching 'approved' vote
\* finds the owner's credits <= 0, the request ends with a failure outcome,
\* not executed; the vote stays recorded, and the command (its status
\* included) and all credits are as they were.
C27_FailedExecutionAfterVote ==
    [][\A p \in Procs :
          LET c == proc[p].cmd
          IN (/\ proc[p].pc = "tx_read" /\ proc[p].via = "vote" /\ Steps(p)
              /\ credits[commands[c].userId] <= 0)
             => /\ proc'[p].pc = "done"
                /\ proc'[p].result = "execution_failed"
                /\ VotesOf(c, proc[p].user) >= 1
                /\ UNCHANGED <<commands, credits, approvals, hist>>]_vars

\* C27 witness: an approval that reached the threshold of a command whose
\* owner has no credits was answered with the failure; the vote is stored and
\* the command still awaits approval.
C27_Witness ==
    \E p \in Procs :
        /\ proc[p].pc = "done" /\ proc[p].kind = "vote"
        /\ proc[p].result = "execution_failed"
        /\ proc[p].cnt >= proc[p].req
        /\ VotesOf(proc[p].cmd, proc[p].user) = 1
        /\ commands[proc[p].cmd].status = "awaiting_approval"
        /\ credits[commands[proc[p].cmd].userId] = 0

\* No request is at work on command c.
AtRest(c) == \A p \in Procs : ~Free(p) => proc[p].cmd # c

\* The command's approved count has reached its owner's threshold.
AtThreshold(c) ==
    /\ commands[c].matchedRuleId # 0
    /\ ApprovedCount(c) >=
          getRequiredApprovals(rules[commands[c].matchedRuleId].approvalThreshold,
                               tier[commands[c].userId])

\* Command c was left behind by an execution that failed: still pending
\* after an AUTO_ACCEPT verdict, or still awaiting_approval at its threshold.
LeftByFailedExecution(c) ==
    /\ AtRest(c)
    /\ \/ commands[c].status = "pending" /\ hist[c].verdict = "AUTO_ACCEPT"
       \/ commands[c].status = "awaiting_approval" /\ AtThreshold(c)

\* The owner's resubmit of c would pass the route's checks and execute c.
ResubmitExecutes(c) ==
    commands[c].status # "executed" /\ AtThreshold(c)

\* The owner's submission of c's text would find c and execute it.
SubmitExecutes(c) ==
    /\ ExistingCommand(commands[c].userId, commands[c].commandText) = c
    /\ AtThreshold(c)

\* C28: a command left pending or awaiting_approval by an execution that
\* failed for insufficient credits is retryable: once its owner's credits are
\* positive, a resubmit of the command or a submission of the same text by
\* the owner executes that command.
C28_FailedExecutionsRetryable ==
    \A c \in DOMAIN commands :
        (LeftByFailedExecution(c) /\ credits[commands[c].userId] > 0)
            => ResubmitExecutes(c) \/ SubmitExecutes(c)

VoteInFlight(p) ==
    /\ proc[p].kind = "vote"
    /\ proc[p].pc \in {"v_reject", "v_count", "v_read", "tx_read", "tx_write"}

\* Request p has created its command and the verdict is not yet applied.
SubmissionInFlight(p) ==
    /\ proc[p].kind = "submit"
    /\ proc[p].via # "submit_dup"
    /\ proc[p].pc \in {"s_match", "s_setrule", "s_reject", "s_await",
                       "tx_read", "tx_write"}

\* The step is a read by request q of command c or of its votes: the load of
\* the command when a vote or a resubmit on it starts, or a count of its
\* approvals.
Observes(q, c) ==
    /\ Steps(q)
    /\ \/ Free(q) /\ proc'[q].kind \in {"vote", "resubmit"} /\ proc'[q].cmd = c
       \/ proc[q].pc \in {"v_count", "r_count"} /\ proc[q].cmd = c

\* C30: votes and submissions are atomic: while a vote is stored and its
\* consequence is not yet applied, and while a command is created and its
\* verdict is not yet applied, no other request reads that command or its
\* votes.
C30_AtomicVotesAndSubmissions ==
    [][\A p, q \in Procs :
          (p # q /\ (VoteInFlight(p) \/ SubmissionInFlight(p)))
             => ~Observes(q, proc[p].cmd)]_vars

\* C31: a rule create or update request of an admin whose pattern does not
\* compile, whose action is not one of the three, or whose pattern conflicts
\* with an existing rule is answered with an error and leaves the Rule table
\* as it was; every rule these requests create or change has a pattern that
\* compiles.
C31_RuleValidationChangesNothing ==
    [][/\ \A u \in Users, pat \in AdminPatterns, act \in AdminActions,
             prio \in AdminPriority, thr \in AdminThresholds :
             (/\ Role(u) = "admin"
              /\ PostRule(u, pat, act, prio, thr)
              /\ \/ act \notin Actions
                 \/ ~validateRegexPattern(pat)
                 \/ detectRuleConflict(rules, pat, 0) # {})
                => rules' = rules /\ call'.out = 400
       /\ \A u \in Users, id \in PutIds, pat \in PutPatterns, act \in PutActions,
             setThreshold \in BOOLEAN, thr \in AdminThresholds :
             (/\ Role(u) = "admin"
              /\ PutRule(u, id, pat, act, setThreshold, thr)
              /\ \/ act # "" /\ act \notin Actions
                 \/ pat # "" /\ ~validateRegexPattern(pat)
                 \/ pat # "" /\ detectRuleConflict(rules, pat, id) # {})
                => rules' = rules /\ call'.out = 400
       /\ \A i \in DOMAIN rules' :
             (i \notin DOMAIN rules \/ rules'[i] # rules[i])
                => validateRegexPattern(rules'[i].pattern)]_vars

\* The rules some command holds as its matchedRuleId.
MatchedRules == {commands[c].matchedRuleId : c \in DOMAIN commands} \ {0}

\* C32: once a rule is some command's matchedRuleId, its pattern, action,
\* approvalThreshold and timeRestrictions never change, so the threshold
\* applied to the command at a vote or resubmit is the one the rule had when
\* the command was submitted.
C32_MatchedRulesImmutable ==
    [][\A r \in MatchedRules :
          /\ rules'[r].pattern = rules[r].pattern
          /\ rules'[r].action = rules[r].action
          /\ rules'[r].approvalThreshold = rules[r].approvalThreshold
          /\ rules'[r].timeRestrictions = rules[r].timeRestrictions]_vars

\* A notification of the given event about command c has been handed to
\* sendEmail.
Notified(box, event, c) == \E n \in box : n.event = event /\ n.cmd = c

\* C33: when a command enters awaiting_approval, a pending-approval
\* notification to the admins is issued; when a vote decides a command
\* (rejected) or an execution completes, the owner is notified.
C33_NotificationsFollowEvents ==
    [][\A c \in DOMAIN commands' :
          LET before == IF c \in DOMAIN commands THEN commands[c].status ELSE "none"
              after == commands'[c].status
          IN /\ (after = "awaiting_approval" /\ before # after)
                   => Notified(mail', "pending_approval", c)
             /\ (after = "rejected" /\ before = "awaiting_approval")
                   => Notified(mail', "command_result", c)
             /\ (after = "executed" /\ before # after)
                   => Notified(mail', "command_executed", c)]_vars

\* C34: a vote request of a user whose role is not admin is refused, stores
\* no Approval and changes no command; a request keeps its user, and an
\* Approval is only ever inserted by a vote request that passed this check,
\* for its own user: every Approval was cast by a user who was an admin when
\* the request was made.
C34_OnlyAdminsVote ==
    [][/\ \A p \in Procs :
             /\ (Free(p) /\ Steps(p) /\ proc'[p].kind = "vote"
                          /\ role[proc'[p].user] # "admin")
                   => /\ proc'[p].pc = "done" /\ proc'[p].result = "forbidden"
                      /\ UNCHANGED <<approvals, commands, credits>>
             /\ (~Free(p) /\ Steps(p)) => proc'[p].user = proc[p].user
       /\ approvals' # approvals
             => \E p \in Procs :
                   /\ proc[p].kind = "vote" /\ proc[p].pc = "v_create" /\ Steps(p)
                   /\ approvals' = approvals (+) SetToBag(
                         {[commandId |-> proc[p].cmd, approverId |-> proc[p].user,
                           decision |-> proc[p].decision]})]_vars

\* C34 witness: a seeded admin who has been made a member voted on a waiting
\* command and was refused; the command has no vote of theirs.
C34_Witness ==
    \E p \in Procs :
        /\ proc[p].pc = "done" /\ proc[p].kind = "vote"
        /\ proc[p].result = "forbidden"
        /\ proc[p].user \in Admins /\ role[proc[p].user] = "member"
        /\ commands[proc[p].cmd].status = "awaiting_approval"
        /\ VotesOf(proc[p].cmd, proc[p].user) = 0

\* Some probe string is matched by both patterns.
Overlap(p1, p2) == \E t \in testStrings : RegexTest(p1, t) /\ RegexTest(p2, t)

\* C35: detectRuleConflict(newPattern, excludeRuleId) reports a rule exactly
\* when the rule is not the excluded one, its pattern compiles and some
\* string of the probe corpus matches both patterns; hasConflict is true
\* exactly when a rule is reported; a rule whose own pattern does not compile
\* is never reported.
C35_ConflictDetection ==
    call.fn = "detectRuleConflict"
       => /\ \A i \in DOMAIN rules :
                i \in call.ids
                   <=> /\ i # call.exclude
                       /\ validateRegexPattern(rules[i].pattern)
                       /\ Overlap(call.text, rules[i].pattern)
          /\ call.ids \subseteq DOMAIN rules
          /\ (call.out = 1) <=> (call.ids # {})
          /\ call.out \in {0, 1}
          /\ \A i \in call.ids : validateRegexPattern(rules[i].pattern)

\* C35 witness: a call for a pattern that overlaps the excluded rule only:
\* nothing is reported, and the table holds a rule whose pattern does not
\* compile, which was passed over.
C35_Witness ==
    /\ call.fn = "detectRuleConflict"
    /\ call.out = 0 /\ call.ids = {}
    /\ call.exclude \in DOMAIN rules
    /\ Overlap(call.text, rules[call.exclude].pattern)
    /\ \E i \in DOMAIN rules : ~validateRegexPattern(rules[i].pattern)

\* C36: getPendingEscalations returns exactly the commands that are awaiting
\* approval and were created more than the timeout (one hour) before now;
\* neither it nor escalateToAdmin nor the passing of time changes a command,
\* a vote or a balance, and a command leaves awaiting_approval only in a step
\* of a request, never in a step of the clock.
C36_EscalationIsPureQuery ==
    [][/\ GetPendingEscalationsCall
           => /\ call'.fn = "getPendingEscalations"
              /\ \A c \in DOMAIN commands :
                    c \in call'.ids <=> /\ commands[c].status = "awaiting_approval"
                                        /\ now - commands[c].createdAt > ESCALATION_TIMEOUT_MS
              /\ call'.ids \subseteq DOMAIN commands
       /\ (GetPendingEscalationsCall \/ EscalateToAdmin \/ Tick)
           => UNCHANGED <<commands, approvals, credits, hist>>
       /\ \A c \in DOMAIN commands :
             (commands[c].status = "awaiting_approval"
                /\ commands'[c].status # "awaiting_approval")
             => /\ now' = now
                /\ \E p \in Procs : proc[p].cmd = c /\ proc'[p] # proc[p]
      ]_vars

\* C36 witness: the query has returned a command created more than an hour
\* ago while another command, created exactly an hour ago, is still awaiting
\* approval and was not returned.
C36_Witness ==
    /\ call.fn = "getPendingEscalations"
    /\ call.ids # {}
    /\ \A c \in call.ids : commands[c].status = "awaiting_approval"
    /\ \E c \in DOMAIN commands \ call.ids :
          /\ commands[c].status = "awaiting_approval"
          /\ commands[c].createdAt = now - ESCALATION_TIMEOUT_MS

\* The number of votes stored for command c in the approval table b.
VotesOn(b, c) ==
    LET S == {r \in BagToSet(b) : r.commandId = c}
    IN BagCardinality([r \in S |-> b[r]])

\* C37: no vote is ever inserted for a command whose stored status at the
\* moment of the insert is not awaiting_approval, also when the command left
\* awaiting_approval between the route's status check and the insert; a vote
\* request that finds the command not awaiting is refused without a vote.
C37_VotesOnlyOnAwaiting ==
    [][/\ \A c \in DOMAIN commands :
             VotesOn(approvals', c) > VotesOn(approvals, c)
             => commands[c].status = "awaiting_approval"
       /\ \A p \in Procs :
             (proc'[p] # proc[p] /\ proc'[p].result = "not_awaiting")
             => approvals' = approvals
      ]_vars

\* The commands of user u that have ever been set to executed.
ExecutedCommandsOf(u) ==
    {c \in DOMAIN commands : commands[c].userId = u /\ Executions(c) > 0}

\* C38: without administrative credit changes, every user's balance equals
\* the initial balance less the number of that user's commands that have ever
\* become executed; a balance changes only in a successful execution, which
\* takes exactly one credit from the command's owner.
C38_CreditConservation ==
    /\ \A u \in Users : credits[u] = InitCredits - Cardinality(ExecutedCommandsOf(u))
    /\ \A c \in DOMAIN commands : commands[c].status = "executed" => Executions(c) > 0

\* C39: every executed command has a matched rule, and a command whose
\* verdict at submission was 'no matching rule' or AUTO_REJECT is never
\* executed by a later vote, resubmit or submit.
C39_ExecutedImpliesMatchedNotRejected ==
    \A c \in DOMAIN commands :
        /\ commands[c].status = "executed" => commands[c].matchedRuleId # 0
        /\ hist[c].verdict \in {"nomatch", "AUTO_REJECT"}
              => commands[c].status # "executed" /\ Executions(c) = 0

\* C40: after any sequence of admin 'add credits' requests with any numeric
\* amount, admin user updates and command executions, every user's credits
\* are a non-negative integer.
C40_CreditsNonNegativeUnderAdmin ==
    \A u \in Users : credits[u] \in Nat

====
